---- MODULE Spec2Model ----
(***************************************************************************)
(* Model of the mood-tracking backend: the streak state machine driven by  *)
(* createEmotion and the streak controller, the emotion / intensity        *)
(* normalisation functions, the token-authentication middleware of the     *)
(* user router and the language-model service with its rule-based          *)
(* fallback.                                                               *)
(*                                                                         *)
(* Strings whose characters matter (emotion words, intensity inputs) are   *)
(* sequences of one-character strings, so that toLowerCase, trim,          *)
(* parseFloat and Number are computed character by character.  The         *)
(* Ukrainian vocabulary is written in Latin transliteration.               *)
(* Dates are integer clock ticks; TicksPerDay ticks make a calendar day.   *)
(***************************************************************************)
EXTENDS Integers, Sequences, FiniteSets, Bags, TLC

VARIABLES now, streaks, entries, res, undisturbed, conv, authReq, authRes,
          userDocs, ai, race

streakVars == <<now, streaks, entries, res, undisturbed>>
convVars == <<conv>>
authVars == <<authReq, authRes, userDocs>>
aiVars == <<ai, race>>
vars == <<now, streaks, entries, res, undisturbed, conv, authReq, authRes, userDocs, ai, race>>

(***************************************************************************)
(* Bounds                                                                  *)
(***************************************************************************)
TicksPerDay == 2
FirstDay == 3
MaxDay == 6
MaxEntries == 3
MaxStrLen == 3

Users == {"u1"}
NULL == 0 - 1
EpochTick == 0

(***************************************************************************)
(* Characters and strings                                                  *)
(***************************************************************************)
Upper == <<"A","B","C","D","E","F","G","H","I","J","K","L","M",
           "N","O","P","Q","R","S","T","U","V","W","X","Y","Z">>
Lower == <<"a","b","c","d","e","f","g","h","i","j","k","l","m",
           "n","o","p","q","r","s","t","u","v","w","x","y","z">>
Digits == <<"0","1","2","3","4","5","6","7","8","9">>
WhiteSpace == {" "}

charToLower(c) ==
  IF \E i \in 1..26 : Upper[i] = c
  THEN Lower[CHOOSE i \in 1..26 : Upper[i] = c]
  ELSE c

charToUpper(c) ==
  IF \E i \in 1..26 : Lower[i] = c
  THEN Upper[CHOOSE i \in 1..26 : Lower[i] = c]
  ELSE c

toLowerCase(s) == [i \in 1..Len(s) |-> charToLower(s[i])]
toUpperCase(s) == [i \in 1..Len(s) |-> charToUpper(s[i])]

RECURSIVE trimStart(_)
trimStart(s) ==
  IF s # <<>> /\ Head(s) \in WhiteSpace THEN trimStart(Tail(s)) ELSE s

RECURSIVE trimEnd(_)
trimEnd(s) ==
  IF s # <<>> /\ s[Len(s)] \in WhiteSpace
  THEN trimEnd(SubSeq(s, 1, Len(s) - 1))
  ELSE s

trim(s) == trimEnd(trimStart(s))

isDigit(c) == \E i \in 1..10 : Digits[i] = c
digitValue(c) == (CHOOSE i \in 1..10 : Digits[i] = c) - 1

(***************************************************************************)
(* Calendar arithmetic of updateUserStreak                                 *)
(***************************************************************************)
setHours0(t) == t - (t % TicksPerDay)
todayOf(t) == setHours0(t)
dayOf(t) == t \div TicksPerDay

(***************************************************************************)
(* Emotion vocabularies (model/emotional.model): EmotionType,              *)
(* EmotionTypeUkrainian (transliterated) and EMOTION_MAPPING               *)
(***************************************************************************)
JOYFUL == <<"j","o","y","f","u","l">>
SATISFIED == <<"s","a","t","i","s","f","i","e","d">>
NEUTRAL == <<"n","e","u","t","r","a","l">>
ANXIOUS == <<"a","n","x","i","o","u","s">>
SAD == <<"s","a","d">>
ANGRY == <<"a","n","g","r","y">>
EXCITED == <<"e","x","c","i","t","e","d">>
TIRED == <<"t","i","r","e","d">>
RADISNYI == <<"r","a","d","i","s","n","y","i">>
ZADOVOLENYI == <<"z","a","d","o","v","o","l","e","n","y","i">>
NEITRALNYI == <<"n","e","i","t","r","a","l","n","y","i">>
TRYVOZHNYI == <<"t","r","y","v","o","z","h","n","y","i">>
SUMNYI == <<"s","u","m","n","y","i">>
ZLYI == <<"z","l","y","i">>
ZBUDZHENYI == <<"z","b","u","d","z","h","e","n","y","i">>
VTOMLENYI == <<"v","t","o","m","l","e","n","y","i">>

EmotionType == {JOYFUL, SATISFIED, NEUTRAL, ANXIOUS, SAD, ANGRY, EXCITED, TIRED}
EmotionTypeUkrainian == {RADISNYI, ZADOVOLENYI, NEITRALNYI, TRYVOZHNYI, SUMNYI, ZLYI, ZBUDZHENYI, VTOMLENYI}

EMOTION_MAPPING_toEnglishSwapped ==
  [u \in EmotionTypeUkrainian |->
     CASE u = RADISNYI -> JOYFUL
       [] u = ZADOVOLENYI -> SATISFIED
       [] u = NEITRALNYI -> NEUTRAL
       [] u = TRYVOZHNYI -> ANXIOUS
       [] u = SUMNYI -> ANGRY
       [] u = ZLYI -> SAD
       [] u = ZBUDZHENYI -> EXCITED
       [] u = VTOMLENYI -> TIRED]

EMOTION_MAPPING_toEnglish ==
  [u \in EmotionTypeUkrainian |->
     CASE u = RADISNYI -> JOYFUL
       [] u = ZADOVOLENYI -> SATISFIED
       [] u = NEITRALNYI -> NEUTRAL
       [] u = TRYVOZHNYI -> ANXIOUS
       [] u = SUMNYI -> SAD
       [] u = ZLYI -> ANGRY
       [] u = ZBUDZHENYI -> EXCITED
       [] u = VTOMLENYI -> TIRED]

EMOTION_MAPPING_toUkrainian ==
  [e \in EmotionType |->
     CASE e = JOYFUL -> RADISNYI
       [] e = SATISFIED -> ZADOVOLENYI
       [] e = NEUTRAL -> NEITRALNYI
       [] e = ANXIOUS -> TRYVOZHNYI
       [] e = SAD -> SUMNYI
       [] e = ANGRY -> ZLYI
       [] e = EXCITED -> ZBUDZHENYI
       [] e = TIRED -> VTOMLENYI]

(***************************************************************************)
(* EmotionUtils (utils/emotionConverter)                                   *)
(***************************************************************************)
toEnglish(emotion) ==
  LET lowerEmotion == trim(toLowerCase(emotion))
  IN  IF lowerEmotion \in EmotionType THEN lowerEmotion
      ELSE IF lowerEmotion \in DOMAIN EMOTION_MAPPING_toEnglish
           THEN EMOTION_MAPPING_toEnglish[lowerEmotion]
           ELSE NEUTRAL

toUkrainian(emotion) ==
  IF emotion \in DOMAIN EMOTION_MAPPING_toUkrainian
  THEN EMOTION_MAPPING_toUkrainian[emotion]
  ELSE NEITRALNYI

isValidEmotion(emotion) ==
  LET lowerEmotion == trim(toLowerCase(emotion))
  IN  lowerEmotion \in EmotionType \/ lowerEmotion \in EmotionTypeUkrainian

(***************************************************************************)
(* IntensityLevel (utils/intensity converter)                              *)
(***************************************************************************)
VERY_LOW == <<"V","E","R","Y","_","L","O","W">>
LOW == <<"L","O","W">>
MODERATE == <<"M","O","D","E","R","A","T","E">>
HIGH == <<"H","I","G","H">>
VERY_HIGH == <<"V","E","R","Y","_","H","I","G","H">>
IntensityLevel == {VERY_LOW, LOW, MODERATE, HIGH, VERY_HIGH}
INFINITY_WORD == <<"I","n","f","i","n","i","t","y">>

(***************************************************************************)
(* JavaScript values.  A finite number is kept in units of 1/Scale.        *)
(***************************************************************************)
Scale == 10 * 10

Num(v) == [t |-> "number", v |-> v]
NaN == [t |-> "NaN"]
Infinity(neg) == [t |-> "Infinity", neg |-> neg]
Str(s) == [t |-> "string", s |-> s]
Bool(b) == [t |-> "boolean", b |-> b]
JSNull == [t |-> "null"]
JSUndefined == [t |-> "undefined"]

typeof(x) ==
  IF x.t \in {"number", "NaN", "Infinity"} THEN "number"
  ELSE IF x.t \in {"null", "array", "object"} THEN "object"
  ELSE x.t

(* ToBoolean for the values the model uses                                  *)
truthy(x) ==
  CASE x.t \in {"undefined", "null", "NaN"} -> FALSE
    [] x.t = "string" -> x.s # <<>>
    [] x.t = "number" -> x.v # 0
    [] x.t = "boolean" -> x.b
    [] OTHER -> TRUE

NumberIsFinite(x) == x.t = "number"
NumberIsInteger(x) == x.t = "number" /\ x.v % Scale = 0
isNaN(x) == x.t = "NaN"
MathRound(v) == (v + Scale \div 2) \div Scale

RECURSIVE takeDigits(_)
takeDigits(s) ==
  IF s # <<>> /\ isDigit(Head(s))
  THEN <<Head(s)>> \o takeDigits(Tail(s))
  ELSE <<>>

RECURSIVE digitsValue(_)
digitsValue(d) ==
  IF d = <<>> THEN 0
  ELSE digitsValue(SubSeq(d, 1, Len(d) - 1)) * 10 + digitValue(d[Len(d)])

fractionValue(d) ==
  (IF Len(d) >= 1 THEN digitValue(d[1]) * (Scale \div 10) ELSE 0)
  + (IF Len(d) >= 2 THEN digitValue(d[2]) * (Scale \div 100) ELSE 0)

startsWith(s, p) == Len(s) >= Len(p) /\ SubSeq(s, 1, Len(p)) = p
drop(s, n) == SubSeq(s, n + 1, Len(s))

(* The longest prefix of s that is a StrDecimalLiteral (sign, Infinity or   *)
(* digits with an optional fraction; exponents are not in the alphabet).    *)
scanDecimal(s) ==
  LET hasSign == s # <<>> /\ Head(s) \in {"-", "+"}
      neg == hasSign /\ Head(s) = "-"
      body == IF hasSign THEN Tail(s) ELSE s
      d1 == takeDigits(body)
      afterInt == drop(body, Len(d1))
      hasDot == afterInt # <<>> /\ Head(afterInt) = "."
      d2 == IF hasDot THEN takeDigits(Tail(afterInt)) ELSE <<>>
      signLen == IF hasSign THEN 1 ELSE 0
      mag == digitsValue(d1) * Scale + fractionValue(d2)
  IN  IF startsWith(body, INFINITY_WORD)
      THEN [ok |-> TRUE, num |-> Infinity(neg),
            len |-> signLen + Len(INFINITY_WORD)]
      ELSE IF Len(d1) + Len(d2) = 0
      THEN [ok |-> FALSE, num |-> NaN, len |-> 0]
      ELSE [ok |-> TRUE, num |-> Num(IF neg THEN 0 - mag ELSE mag),
            len |-> signLen + Len(d1) + (IF hasDot THEN 1 + Len(d2) ELSE 0)]

parseFloat(s) == scanDecimal(trimStart(s)).num

(* Number(string): the whole trimmed string must be a numeric literal.      *)
StringToNumber(s) ==
  LET t == trim(s)
      r == scanDecimal(t)
  IN  IF t = <<>> THEN Num(0)
      ELSE IF r.ok /\ r.len = Len(t) THEN r.num
      ELSE NaN

(***************************************************************************)
(* EmotionUtils.normalizeIntensity / validateIntensity                     *)
(***************************************************************************)
normalizeIntensityViaNumber(intensity) ==
  LET num == IF typeof(intensity) = "string"
             THEN StringToNumber(intensity.s)
             ELSE intensity
  IN  IF ~NumberIsFinite(num) THEN 5
      ELSE IF num.v < 1 * Scale THEN 1
      ELSE IF num.v > 10 * Scale THEN 10
      ELSE MathRound(num.v)

normalizeIntensity(intensity) ==
  LET num == IF typeof(intensity) = "string"
             THEN parseFloat(intensity.s)
             ELSE intensity
  IN  IF ~NumberIsFinite(num) THEN 5
      ELSE IF num.v < 1 * Scale THEN 1
      ELSE IF num.v > 10 * Scale THEN 10
      ELSE MathRound(num.v)

validateIntensity(n) == n >= 1 /\ n <= 10

(***************************************************************************)
(* IntensityConverter.toDatabase / IntensityDatabaseHelper.prepareForSave  *)
(***************************************************************************)
numberToEnum(x) ==
  IF ~NumberIsFinite(x) THEN JSUndefined
  ELSE IF x.v = 1 * Scale THEN Str(VERY_LOW)
  ELSE IF x.v = 2 * Scale THEN Str(LOW)
  ELSE IF x.v = 3 * Scale THEN Str(MODERATE)
  ELSE IF x.v = 4 * Scale THEN Str(HIGH)
  ELSE IF x.v = 5 * Scale THEN Str(VERY_HIGH)
  ELSE JSUndefined

toDatabaseCaseSensitive(input) ==
  IF typeof(input) = "number"
  THEN IF numberToEnum(input) # JSUndefined THEN numberToEnum(input)
       ELSE JSNull
  ELSE IF typeof(input) = "string"
  THEN LET numValue == StringToNumber(input.s)
       IN  IF ~isNaN(numValue) /\ NumberIsInteger(numValue)
              /\ numberToEnum(numValue) # JSUndefined
           THEN numberToEnum(numValue)
           ELSE IF input.s \in IntensityLevel THEN input
           ELSE JSNull
  ELSE JSNull

toDatabase(input) ==
  IF typeof(input) = "number"
  THEN IF numberToEnum(input) # JSUndefined THEN numberToEnum(input)
       ELSE JSNull
  ELSE IF typeof(input) = "string"
  THEN LET numValue == StringToNumber(input.s)
           upperLevel == toUpperCase(input.s)
       IN  IF ~isNaN(numValue) /\ NumberIsInteger(numValue)
              /\ numberToEnum(numValue) # JSUndefined
           THEN numberToEnum(numValue)
           ELSE IF upperLevel \in IntensityLevel THEN Str(upperLevel)
           ELSE JSNull
  ELSE JSNull

prepareForSaveThrows(intensity) == toDatabase(intensity) = JSNull

(***************************************************************************)
(* Streak collection (model/streak.model, repositories/streak.repository)  *)
(***************************************************************************)
StreakFields == {"currentStreak", "longestStreak", "streakStartDate",
                 "lastActivityDate", "totalMoodTracked", "isActive"}

(* A new Streak document: the schema defaults overridden by the given data. *)
streakSchema(userId, data) ==
  LET pick(f, dflt) == IF f \in DOMAIN data THEN data[f] ELSE dflt
  IN  [userId |-> userId,
       currentStreak |-> pick("currentStreak", 0),
       longestStreak |-> pick("longestStreak", 0),
       streakStartDate |-> pick("streakStartDate", NULL),
       lastActivityDate |-> pick("lastActivityDate", NULL),
       totalMoodTracked |-> pick("totalMoodTracked", 0),
       isActive |-> pick("isActive", TRUE)]

(* $set of the given fields on a document                                   *)
applySet(d, data) ==
  LET pick(f) == IF f \in DOMAIN data THEN data[f] ELSE d[f]
  IN  [userId |-> d.userId,
       currentStreak |-> pick("currentStreak"),
       longestStreak |-> pick("longestStreak"),
       streakStartDate |-> pick("streakStartDate"),
       lastActivityDate |-> pick("lastActivityDate"),
       totalMoodTracked |-> pick("totalMoodTracked"),
       isActive |-> pick("isActive")]

findByUserId(S, userId) == {d \in S : d.userId = userId}

oneOf(D) == CHOOSE d \in D : TRUE

createStreakWithoutUniqueIndex(S, userId) == FALSE

(* save() fails on the unique userId index when a document exists           *)
createStreakThrows(S, userId) == findByUserId(S, userId) # {}
createStreak(S, userId, data) == S \cup {streakSchema(userId, data)}

(* findOneAndUpdate({userId}, {$set}, {upsert: true})                       *)
updateStreak(S, userId, updateData) ==
  IF findByUserId(S, userId) = {}
  THEN S \cup {streakSchema(userId, updateData)}
  ELSE LET d == oneOf(findByUserId(S, userId))
       IN  (S \ {d}) \cup {applySet(d, updateData)}

incrementMoodCountReactivating(S, userId) ==
  IF findByUserId(S, userId) = {}
  THEN S \cup {streakSchema(userId, [totalMoodTracked |-> 1])}
  ELSE LET d == oneOf(findByUserId(S, userId))
       IN  (S \ {d}) \cup
           {applySet(d, [totalMoodTracked |-> d.totalMoodTracked + 1,
                         isActive |-> TRUE])}

(* findOneAndUpdate({userId}, {$inc: {totalMoodTracked: 1}}, {upsert})      *)
incrementMoodCount(S, userId) ==
  IF findByUserId(S, userId) = {}
  THEN S \cup {streakSchema(userId, [totalMoodTracked |-> 1])}
  ELSE LET d == oneOf(findByUserId(S, userId))
       IN  (S \ {d}) \cup
           {applySet(d, [totalMoodTracked |-> d.totalMoodTracked + 1])}

resetStreakUpsert(S, userId) ==
  updateStreak(S, userId, [currentStreak |-> 0, isActive |-> FALSE,
                           streakStartDate |-> NULL])

(* findOneAndUpdate without upsert: nothing happens when no document exists *)
resetStreak(S, userId) ==
  IF findByUserId(S, userId) = {} THEN S
  ELSE LET d == oneOf(findByUserId(S, userId))
       IN  (S \ {d}) \cup
           {applySet(d, [currentStreak |-> 0, isActive |-> FALSE,
                         streakStartDate |-> NULL])}

deleteStreak(S, userId) ==
  IF findByUserId(S, userId) = {} THEN S
  ELSE S \ {oneOf(findByUserId(S, userId))}

(***************************************************************************)
(* EmotionController.updateUserStreak                                      *)
(***************************************************************************)
yesterdayOfFromNow(t) == t - TicksPerDay

yesterdayOf(t) == todayOf(t) - TicksPerDay

(* lines 408-415: the document created for a user without a streak record   *)
firstStreakDataNoLongest(today) ==
  [currentStreak |-> 1,
   streakStartDate |-> today, lastActivityDate |-> today,
   totalMoodTracked |-> 1]

firstStreakData(today) ==
  [currentStreak |-> 1, longestStreak |-> 1,
   streakStartDate |-> today, lastActivityDate |-> today,
   totalMoodTracked |-> 1]

(* lines 427-436: yesterday had an entry, the streak continues              *)
continueStreakDataKeepLongest(streak, today) ==
  [currentStreak |-> streak.currentStreak + 1,
   lastActivityDate |-> today,
   totalMoodTracked |-> streak.totalMoodTracked + 1,
   isActive |-> TRUE]

continueStreakData(streak, today) ==
  LET newCurrentStreak == streak.currentStreak + 1
      newLongestStreak == IF newCurrentStreak > streak.longestStreak
                          THEN newCurrentStreak ELSE streak.longestStreak
  IN  [currentStreak |-> newCurrentStreak,
       longestStreak |-> newLongestStreak,
       lastActivityDate |-> today,
       totalMoodTracked |-> streak.totalMoodTracked + 1,
       isActive |-> TRUE]

(* lines 439-445: a day was skipped, a new streak starts                    *)
newStreakDataKeepInactive(streak, today) ==
  [currentStreak |-> 1,
   streakStartDate |-> today,
   lastActivityDate |-> today,
   totalMoodTracked |-> streak.totalMoodTracked + 1]

newStreakData(streak, today) ==
  [currentStreak |-> 1,
   streakStartDate |-> today,
   lastActivityDate |-> today,
   totalMoodTracked |-> streak.totalMoodTracked + 1,
   isActive |-> TRUE]

updateUserStreak(S, userId, t) ==
  LET today == todayOf(t)
      yesterday == yesterdayOf(t)
      found == findByUserId(S, userId)
  IN  IF found = {}
      THEN createStreak(S, userId, firstStreakData(today))
      ELSE
        LET streak == oneOf(found)
            lastActivity ==
              setHours0(IF streak.lastActivityDate # NULL
                        THEN streak.lastActivityDate ELSE EpochTick)
        IN  IF lastActivity = today
            THEN incrementMoodCount(S, userId)
            ELSE IF lastActivity = yesterday
            THEN updateStreak(S, userId, continueStreakData(streak, today))
            ELSE updateStreak(S, userId, newStreakData(streak, today))

(***************************************************************************)
(* Requests handled by EmotionController and StreakController.  Each       *)
(* action is one whole request; fault says which repository call, if any,  *)
(* is failed by the database.                                              *)
(***************************************************************************)
HAPPY == <<"h","a","p","p","y">>
MISSING == <<>>
NoUser == ""

EmotionBodies ==
  { [emotion |-> Str(<<" ","R","a","d","i","s","n","y","i">>),
     intensity |-> Str(<<"1","2","a">>)],
    [emotion |-> Str(HAPPY), intensity |-> JSUndefined],
    [emotion |-> JSUndefined, intensity |-> Num(3 * Scale)],
    [emotion |-> Num(7 * Scale), intensity |-> Num(3 * Scale)] }

CreateFaults == {"none", "create", "update", "find"}

response(op, userId, status, streak) ==
  [op |-> op, userId |-> userId, status |-> status, streak |-> streak]

streakSummary(D) ==
  IF D = {} THEN <<>>
  ELSE LET streak == oneOf(D)
       IN  <<[currentStreak |-> streak.currentStreak,
              longestStreak |-> streak.longestStreak,
              totalMoodTracked |-> streak.totalMoodTracked]>>

(* mongoose validation of a new EmotionEntry: intensity min 1, max 10       *)
emotionEntrySchemaRejects(emotionData) ==
  ~(emotionData.intensity >= 1 /\ emotionData.intensity <= 10)
  \/ emotionData.emotion \notin EmotionType

(* What createEmotion derives from each request body (lines 45-69),        *)
(* computed once per body.                                                  *)
emotionDataOf ==
  [body \in EmotionBodies |->
     LET intensity == IF body.intensity = JSUndefined
                      THEN Num(5 * Scale) ELSE body.intensity
         isString == typeof(body.emotion) = "string"
     IN  [valid |-> isString /\ isValidEmotion(body.emotion.s),
          emotion |-> IF isString THEN toEnglish(body.emotion.s) ELSE NEUTRAL,
          intensity |-> normalizeIntensity(intensity)]]

streakUpdateFailedRethrows(userId) ==
  response("createEmotion", userId, 500, <<>>)

(* lines 78-103: the catch around the streak update only logs, and the      *)
(* response is sent with streak: null                                       *)
streakUpdateFailed(userId) ==
  response("createEmotion", userId, 201, <<>>)

CreateEmotion(userId, body, fault) ==
  LET valid == emotionDataOf[body].valid
      emotionData == [userId |-> userId,
                      emotion |-> emotionDataOf[body].emotion,
                      intensity |-> emotionDataOf[body].intensity,
                      createdAt |-> now]
      updated == updateUserStreak(streaks, userId, now)
  IN  /\ Len(entries) < MaxEntries
      /\ UNCHANGED <<now, conv, authReq, authRes, userDocs, ai, race>>
      /\ \/ /\ userId = NoUser \/ ~truthy(body.emotion)
            /\ fault = "none"
            /\ res' = response("createEmotion", userId, 400, <<>>)
            /\ UNCHANGED <<streaks, entries, undisturbed>>
         \/ /\ userId # NoUser /\ truthy(body.emotion)
            /\ typeof(body.emotion) # "string"
            /\ fault = "none"
            /\ res' = response("createEmotion", userId, 500, <<>>)
            /\ UNCHANGED <<streaks, entries, undisturbed>>
         \/ /\ userId # NoUser /\ typeof(body.emotion) = "string"
            /\ truthy(body.emotion)
            /\ ~valid
            /\ fault = "none"
            /\ res' = response("createEmotion", userId, 400, <<>>)
            /\ UNCHANGED <<streaks, entries, undisturbed>>
         \/ /\ userId # NoUser /\ typeof(body.emotion) = "string"
            /\ truthy(body.emotion)
            /\ valid
            /\ fault = "create" \/ emotionEntrySchemaRejects(emotionData)
            /\ res' = response("createEmotion", userId, 500, <<>>)
            /\ UNCHANGED <<streaks, entries, undisturbed>>
         \/ /\ userId # NoUser /\ typeof(body.emotion) = "string"
            /\ truthy(body.emotion)
            /\ valid
            /\ ~emotionEntrySchemaRejects(emotionData)
            /\ fault = "update"
            /\ entries' = Append(entries, emotionData)
            /\ res' = streakUpdateFailed(userId)
            /\ undisturbed' = [undisturbed EXCEPT ![userId] = FALSE]
            /\ UNCHANGED streaks
         \/ /\ userId # NoUser /\ typeof(body.emotion) = "string"
            /\ truthy(body.emotion)
            /\ valid
            /\ ~emotionEntrySchemaRejects(emotionData)
            /\ fault = "find"
            /\ entries' = Append(entries, emotionData)
            /\ streaks' = updated
            /\ res' = response("createEmotion", userId, 201, <<>>)
            /\ undisturbed' = [undisturbed EXCEPT ![userId] = FALSE]
         \/ /\ userId # NoUser /\ typeof(body.emotion) = "string"
            /\ truthy(body.emotion)
            /\ valid
            /\ ~emotionEntrySchemaRejects(emotionData)
            /\ fault = "none"
            /\ entries' = Append(entries, emotionData)
            /\ streaks' = updated
            /\ res' = response("createEmotion", userId, 201,
                               streakSummary(findByUserId(updated, userId)))
            /\ UNCHANGED undisturbed

streakData(D) ==
  LET streak == oneOf(D)
  IN  <<[currentStreak |-> streak.currentStreak,
         longestStreak |-> streak.longestStreak,
         totalMoodTracked |-> streak.totalMoodTracked,
         lastActivityDate |-> streak.lastActivityDate,
         streakStartDate |-> streak.streakStartDate,
         isActive |-> streak.isActive]>>

zeroStreak == [currentStreak |-> 0, longestStreak |-> 0, totalMoodTracked |-> 0]

GetUserStreak(userId, fault) ==
  LET found == findByUserId(streaks, userId)
      created == createStreak(streaks, userId, zeroStreak)
  IN  /\ UNCHANGED <<now, entries, undisturbed, conv, authReq, authRes,
                     userDocs, ai, race>>
      /\ \/ /\ fault
            /\ res' = response("getUserStreak", userId, 500, <<>>)
            /\ UNCHANGED streaks
         \/ /\ ~fault /\ found # {}
            /\ res' = response("getUserStreak", userId, 200, streakData(found))
            /\ UNCHANGED streaks
         \/ /\ ~fault /\ found = {}
            /\ streaks' = created
            /\ res' = response("getUserStreak", userId, 200,
                               streakData(findByUserId(created, userId)))

(* streakDuration of getStreakStats                                         *)
streakDuration(streak) ==
  IF streak.streakStartDate # NULL /\ streak.lastActivityDate # NULL
  THEN (streak.lastActivityDate - streak.streakStartDate) \div TicksPerDay + 1
  ELSE 0

(* findByUserId returns a lean object, which has no toObject method; only   *)
(* the document returned by createStreak has one.                           *)
GetStreakStats(userId, fault) ==
  LET found == findByUserId(streaks, userId)
      created == createStreak(streaks, userId, zeroStreak)
      doc == oneOf(findByUserId(created, userId))
  IN  /\ UNCHANGED <<now, entries, undisturbed, conv, authReq, authRes,
                     userDocs, ai, race>>
      /\ \/ /\ fault
            /\ res' = response("getStreakStats", userId, 500, <<>>)
            /\ UNCHANGED streaks
         \/ /\ ~fault /\ found # {}
            /\ res' = response("getStreakStats", userId, 500, <<>>)
            /\ UNCHANGED streaks
         \/ /\ ~fault /\ found = {}
            /\ streaks' = created
            /\ res' = response("getStreakStats", userId, 200,
                         <<[currentStreak |-> doc.currentStreak,
                            longestStreak |-> doc.longestStreak,
                            totalMoodTracked |-> doc.totalMoodTracked,
                            streakDuration |-> streakDuration(doc)]>>)

ResetUserStreak(userId, fault) ==
  LET found == findByUserId(streaks, userId)
      updated == resetStreak(streaks, userId)
  IN  /\ UNCHANGED <<now, entries, conv, authReq, authRes, userDocs, ai, race>>
      /\ \/ /\ fault
            /\ res' = response("resetUserStreak", userId, 500, <<>>)
            /\ UNCHANGED <<streaks, undisturbed>>
         \/ /\ ~fault /\ findByUserId(updated, userId) = {}
            /\ streaks' = updated
            /\ res' = response("resetUserStreak", userId, 500, <<>>)
            /\ UNCHANGED undisturbed
         \/ /\ ~fault /\ findByUserId(updated, userId) # {}
            /\ streaks' = updated
            /\ undisturbed' = [undisturbed EXCEPT ![userId] = FALSE]
            /\ res' = response("resetUserStreak", userId, 200,
                               streakSummary(findByUserId(updated, userId)))

DeleteUserStreak(userId, fault) ==
  LET found == findByUserId(streaks, userId)
  IN  /\ UNCHANGED <<now, entries, conv, authReq, authRes, userDocs, ai, race>>
      /\ \/ /\ fault \/ found = {}
            /\ res' = response("deleteUserStreak", userId, 500, <<>>)
            /\ UNCHANGED <<streaks, undisturbed>>
         \/ /\ ~fault /\ found # {}
            /\ streaks' = deleteStreak(streaks, userId)
            /\ undisturbed' = [undisturbed EXCEPT ![userId] = FALSE]
            /\ res' = response("deleteUserStreak", userId, 200, <<>>)

(* The wall clock advances.                                                 *)
Tick ==
  /\ now < MaxDay * TicksPerDay
  /\ now' = now + 1
  /\ UNCHANGED <<streaks, entries, res, undisturbed, conv, authReq, authRes,
                 userDocs, ai, race>>

StreakNext ==
  \/ \E userId \in Users \cup {NoUser}, body \in EmotionBodies,
        fault \in CreateFaults : CreateEmotion(userId, body, fault)
  \/ \E userId \in Users, fault \in BOOLEAN : GetUserStreak(userId, fault)
  \/ \E userId \in Users, fault \in BOOLEAN : GetStreakStats(userId, fault)
  \/ \E userId \in Users, fault \in BOOLEAN : ResetUserStreak(userId, fault)
  \/ \E userId \in Users, fault \in BOOLEAN : DeleteUserStreak(userId, fault)
  \/ Tick

(***************************************************************************)
(* Calls of the conversion functions.  The functions are pure, so a        *)
(* behaviour is one call on a chosen input, possibly followed by calls on   *)
(* the result; conv records the latest call and, for a call on a result,    *)
(* prevFn and prevInput record the call that produced its input.            *)
(***************************************************************************)
StrAlphabet == {"1", "5", "7", "0", ".", "-", " ", "a"}

Strings == UNION {[1..k -> StrAlphabet] : k \in 0..MaxStrLen}

RECURSIVE CaseVariants(_)
CaseVariants(w) ==
  IF w = <<>> THEN {<<>>}
  ELSE {<<c>> \o r : c \in {charToLower(Head(w)), charToUpper(Head(w))},
                     r \in CaseVariants(Tail(w))}

LevelWords ==
  UNION {CaseVariants(l) : l \in IntensityLevel}
  \cup {<<" ">> \o l : l \in IntensityLevel}
  \cup {l \o <<" ">> : l \in IntensityLevel}

NumberInputs ==
  {Num(k * (Scale \div 4)) : k \in (0 - 8)..48}
  \cup {NaN, Infinity(FALSE), Infinity(TRUE)}

IntensityInputs ==
  NumberInputs
  \cup {JSNull, JSUndefined, Bool(TRUE), Bool(FALSE)}
  \cup {Str(s) : s \in Strings}
  \cup {Str(INFINITY_WORD), Str(<<"-">> \o INFINITY_WORD),
        Str(<<"7","a","b","c">>)}

LevelInputs == IntensityInputs \cup {Str(w) : w \in LevelWords}

EmotionWords ==
  EmotionType \cup EmotionTypeUkrainian
  \cup {toUpperCase(w) : w \in EmotionType \cup EmotionTypeUkrainian}
  \cup {<<" ">> \o w \o <<" ">> : w \in EmotionType \cup EmotionTypeUkrainian}
  \cup {HAPPY, MISSING}

noCall ==
  [fn |-> "none", input |-> JSUndefined, output |-> JSUndefined,
   prevFn |-> "none", prevInput |-> JSUndefined]

call(fn, input, output) ==
  [fn |-> fn, input |-> input, output |-> output,
   prevFn |-> "none", prevInput |-> JSUndefined]

chained(fn, output) ==
  [fn |-> fn, input |-> conv.output, output |-> output,
   prevFn |-> conv.fn, prevInput |-> conv.input]

convFrame == UNCHANGED <<now, streaks, entries, res, undisturbed,
                         authReq, authRes, userDocs, ai, race>>

NormalizeIntensityCall(intensity) ==
  /\ conv = noCall
  /\ conv' = call("normalizeIntensity", intensity,
                  Num(normalizeIntensity(intensity) * Scale))
  /\ convFrame

ToDatabaseCall(input) ==
  /\ conv = noCall
  /\ conv' = call("toDatabase", input, toDatabase(input))
  /\ convFrame

ToEnglishCall(emotion) ==
  /\ conv = noCall
  /\ conv' = call("toEnglish", Str(emotion), Str(toEnglish(emotion)))
  /\ convFrame

ToUkrainianCall(emotion) ==
  /\ conv = noCall
  /\ conv' = call("toUkrainian", Str(emotion), Str(toUkrainian(emotion)))
  /\ convFrame

(* toEnglish applied to what the previous toUkrainian call returned         *)
ToEnglishOfResult ==
  /\ conv.fn = "toUkrainian"
  /\ conv' = chained("toEnglish", Str(toEnglish(conv.output.s)))
  /\ convFrame

(* toUkrainian applied to what the previous toEnglish call returned         *)
ToUkrainianOfResult ==
  /\ conv.fn = "toEnglish"
  /\ conv' = chained("toUkrainian", Str(toUkrainian(conv.output.s)))
  /\ convFrame

ConvNext ==
  \/ \E intensity \in IntensityInputs : NormalizeIntensityCall(intensity)
  \/ \E input \in LevelInputs : ToDatabaseCall(input)
  \/ \E emotion \in EmotionWords : ToEnglishCall(emotion)
  \/ \E emotion \in EmotionType \cup {HAPPY} : ToUkrainianCall(emotion)
  \/ ToEnglishOfResult
  \/ ToUkrainianOfResult

(***************************************************************************)
(* AuthMiddleware.authenticateToken in front of the user router            *)
(***************************************************************************)
AuthUsers == {"u1", "u2"}

BEARER == <<"B","e","a","r","e","r"," ">>
BEARER_LOWER == <<"b","e","a","r","e","r"," ">>
BASIC == <<"B","a","s","i","c"," ">>

TOKEN_U1 == <<"t","1">>
TOKEN_U2 == <<"t","2">>
TOKEN_NO_ID == <<"t","s">>
TOKEN_BAD == <<"x">>

(* jwt.verify(token, secret): the payload of a token that is signed with    *)
(* the secret and not expired; anything else throws.                        *)
jwtVerify(token) ==
  CASE token = TOKEN_U1 -> [ok |-> TRUE, id |-> "u1"]
    [] token = TOKEN_U2 -> [ok |-> TRUE, id |-> "u2"]
    [] token = TOKEN_NO_ID -> [ok |-> TRUE, id |-> ""]
    [] OTHER -> [ok |-> FALSE, id |-> ""]

AuthorizationHeaders ==
  {JSUndefined}
  \cup {Str(BEARER \o t) : t \in {TOKEN_U1, TOKEN_U2, TOKEN_NO_ID, TOKEN_BAD, <<>>}}
  \cup {Str(BASIC \o TOKEN_U1), Str(BEARER_LOWER \o TOKEN_U1)}

QueryTokens == {JSUndefined, Str(TOKEN_BAD), [t |-> "array"]}

Cookies ==
  {JSUndefined,
   [t |-> "object", token |-> JSUndefined],
   [t |-> "object", token |-> Str(TOKEN_U2)]}

CustomTokens == {JSUndefined, Str(TOKEN_U1)}

UserRoutes ==
  {"GET /profile", "PUT /profile", "PUT /password", "POST /avatar",
   "PUT /avatar", "DELETE /avatar", "GET /", "GET /:id", "DELETE /:id"}

UploadRoutes == {"POST /avatar", "PUT /avatar"}

Requests ==
  UNION {[route : {route},
          authorization : AuthorizationHeaders,
          queryToken : QueryTokens,
          cookies : Cookies,
          xAccessToken : CustomTokens,
          id : {"u1"},
          jwtSecret : BOOLEAN,
          dbFault : BOOLEAN,
          uploadFails : IF route \in UploadRoutes THEN BOOLEAN ELSE {FALSE}]
         : route \in UserRoutes}

noRequest == [route |-> "none"]
noResponse == [status |-> 0, code |-> "", handler |-> "none", user |-> ""]

extractToken(req) ==
  LET authHeader == req.authorization
      customToken == req.xAccessToken
  IN  IF truthy(authHeader) /\ startsWith(authHeader.s, BEARER)
      THEN Str(drop(authHeader.s, 7))
      ELSE IF truthy(req.queryToken) /\ typeof(req.queryToken) = "string"
      THEN req.queryToken
      ELSE IF truthy(req.cookies) /\ truthy(req.cookies.token)
      THEN req.cookies.token
      ELSE IF truthy(customToken) /\ typeof(customToken) = "string"
      THEN customToken
      ELSE JSNull

(* null when no secret is configured or jwt.verify throws                   *)
verifyToken(token, jwtSecret) ==
  IF ~jwtSecret THEN [ok |-> FALSE, id |-> ""]
  ELSE jwtVerify(token)

unauthorized(code) ==
  [status |-> 401, code |-> code, next |-> FALSE, user |-> ""]

authenticateTokenNoUserCheck(req, users) ==
  LET token == extractToken(req)
      decoded == verifyToken(token.s, req.jwtSecret)
  IN  IF ~truthy(token) THEN unauthorized("TOKEN_MISSING")
      ELSE IF ~decoded.ok THEN unauthorized("TOKEN_INVALID")
      ELSE IF req.dbFault THEN unauthorized("AUTH_ERROR")
      ELSE [status |-> 0, code |-> "", next |-> TRUE, user |-> decoded.id]

authenticateToken(req, users) ==
  LET token == extractToken(req)
      decoded == verifyToken(token.s, req.jwtSecret)
  IN  IF ~truthy(token) THEN unauthorized("TOKEN_MISSING")
      ELSE IF ~decoded.ok THEN unauthorized("TOKEN_INVALID")
      ELSE IF req.dbFault THEN unauthorized("AUTH_ERROR")
      ELSE IF decoded.id \notin users THEN unauthorized("USER_NOT_FOUND")
      ELSE [status |-> 0, code |-> "", next |-> TRUE, user |-> decoded.id]

authFrame == UNCHANGED <<now, streaks, entries, res, undisturbed, conv, ai, race>>

(* One request to the user router: router.use(authenticateToken), then      *)
(* upload.single on the avatar routes, then the route handler.              *)
UserRouterRequest(req) ==
  LET auth == authenticateToken(req, userDocs)
  IN  /\ authReq = noRequest
      /\ authReq' = req
      /\ authFrame
      /\ \/ /\ ~auth.next
            /\ authRes' = [status |-> auth.status, code |-> auth.code,
                           handler |-> "none", user |-> ""]
            /\ UNCHANGED userDocs
         \/ /\ auth.next
            /\ req.route \in UploadRoutes /\ req.uploadFails
            /\ authRes' = [status |-> 500, code |-> "UPLOAD", handler |-> "none",
                           user |-> auth.user]
            /\ UNCHANGED userDocs
         \/ /\ auth.next
            /\ ~(req.route \in UploadRoutes /\ req.uploadFails)
            /\ req.route = "DELETE /:id"
            /\ IF auth.user = req.id
               THEN /\ userDocs' = userDocs \ {req.id}
                    /\ authRes' = [status |-> 200, code |-> "",
                                   handler |-> req.route, user |-> auth.user]
               ELSE /\ UNCHANGED userDocs
                    /\ authRes' = [status |-> 403, code |-> "",
                                   handler |-> req.route, user |-> auth.user]
         \/ /\ auth.next
            /\ ~(req.route \in UploadRoutes /\ req.uploadFails)
            /\ req.route # "DELETE /:id"
            /\ authRes' = [status |-> 200, code |-> "", handler |-> req.route,
                           user |-> auth.user]
            /\ UNCHANGED userDocs

(* The response has been sent; the server waits for the next request.       *)
RequestFinished ==
  /\ authReq # noRequest
  /\ authReq' = noRequest
  /\ authRes' = noResponse
  /\ UNCHANGED userDocs
  /\ authFrame

(* UserRepository.createUser, reached through registration                  *)
CreateUser(userId) ==
  /\ authReq = noRequest
  /\ userId \notin userDocs
  /\ userDocs' = userDocs \cup {userId}
  /\ UNCHANGED <<authReq, authRes>>
  /\ authFrame

AuthNext ==
  \/ \E req \in Requests : UserRouterRequest(req)
  \/ RequestFinished
  \/ \E userId \in AuthUsers : CreateUser(userId)

(***************************************************************************)
(* OpenAIService: analysis, recommendations and summary, each with its      *)
(* rule-based generator                                                     *)
(***************************************************************************)
Arr(items) == [t |-> "array", items |-> items]
Obj(fields) == [t |-> "object", fields |-> fields]
THROWN == [t |-> "thrown"]

(* A message of the service, held as one unit of text                       *)
msg(text) == Str(<<text>>)

(* o[k]: a TypeError on null and undefined, undefined for a missing key     *)
getProp(o, k) ==
  IF o.t \in {"null", "undefined", "thrown"} THEN THROWN
  ELSE IF o.t = "object" /\ k \in DOMAIN o.fields THEN o.fields[k]
  ELSE JSUndefined

RECURSIVE joinItems(_, _)
joinItems(items, sep) ==
  IF items = <<>> THEN <<>>
  ELSE IF Len(items) = 1 THEN Head(items).s
  ELSE Head(items).s \o sep \o joinItems(Tail(items), sep)

(* String(v) for the values that reach concat                               *)
toStringJS(v) ==
  CASE v.t = "string" -> v.s
    [] v.t = "array" -> joinItems(v.items, <<",">>)
    [] v.t = "null" -> <<"n","u","l","l">>
    [] OTHER -> <<"u","n","d","e","f","i","n","e","d">>

(* v.slice(0, end): arrays and strings have it, anything else has not       *)
slice(v, end) ==
  CASE v.t = "array" ->
         Arr(SubSeq(v.items, 1, IF Len(v.items) < end THEN Len(v.items) ELSE end))
    [] v.t = "string" ->
         Str(SubSeq(v.s, 1, IF Len(v.s) < end THEN Len(v.s) ELSE end))
    [] OTHER -> THROWN

(* a.concat(b)                                                              *)
concat(a, b) ==
  IF b = THROWN THEN THROWN
  ELSE CASE a.t = "array" ->
              IF b.t = "array" THEN Arr(a.items \o b.items)
              ELSE Arr(Append(a.items, b))
         [] a.t = "string" -> Str(a.s \o toStringJS(b))
         [] OTHER -> THROWN

(* v.join(", "): only arrays have it                                        *)
join(v) ==
  IF v.t = "array" THEN Str(joinItems(v.items, <<",", " ">>)) ELSE THROWN

EmotionTypeValues ==
  <<"happy", "sad", "angry", "anxious", "excited", "calm", "frustrated",
    "grateful", "lonely", "confident", "overwhelmed", "peaceful">>

IntensityLevelValues == <<VERY_LOW, LOW, MODERATE, HIGH, VERY_HIGH>>

negativeEmotions ==
  <<"sad", "angry", "anxious", "frustrated", "overwhelmed", "lonely">>

positiveEmotions ==
  <<"happy", "excited", "calm", "grateful", "confident", "peaceful">>

RECURSIVE reduceSum(_, _)
reduceSum(distribution, emotions) ==
  IF emotions = <<>> THEN 0
  ELSE distribution[Head(emotions)] + reduceSum(distribution, Tail(emotions))

(* Object.keys(d).reduce((a, b) => d[a] > d[b] ? a : b)                     *)
RECURSIVE reduceMostCommon(_, _, _)
reduceMostCommon(distribution, a, keys) ==
  IF keys = <<>> THEN a
  ELSE reduceMostCommon(distribution,
                        IF distribution[a] > distribution[Head(keys)]
                        THEN a ELSE Head(keys),
                        Tail(keys))

emotionDistributionOf(counts) ==
  [e \in {EmotionTypeValues[i] : i \in DOMAIN EmotionTypeValues} |->
     IF e \in DOMAIN counts THEN counts[e] ELSE 0]

intensityDistributionOf(counts) ==
  [l \in IntensityLevel |->
     IF \E i \in DOMAIN counts : counts[i][1] = l
     THEN (CHOOSE c \in {counts[i] : i \in DOMAIN counts} : c[1] = l)[2]
     ELSE 0]

(* EmotionRepository.getEmotionStats over the given distributions           *)
getEmotionStats(emotionCounts, intensityCounts, avgStressLevel) ==
  LET emotionDistribution == emotionDistributionOf(emotionCounts)
      intensityDistribution == intensityDistributionOf(intensityCounts)
  IN  [totalEntries |-> reduceSum(emotionDistribution, EmotionTypeValues),
       averageStressLevel |-> avgStressLevel,
       mostCommonEmotion |->
         reduceMostCommon(emotionDistribution, Head(EmotionTypeValues),
                          Tail(EmotionTypeValues)),
       mostCommonIntensity |->
         reduceMostCommon(intensityDistribution, Head(IntensityLevelValues),
                          Tail(IntensityLevelValues)),
       emotionDistribution |-> emotionDistribution,
       intensityDistribution |-> intensityDistribution]

AIStats ==
  { getEmotionStats(<<>>, <<>>, 0),
    getEmotionStats([sad |-> 2], <<<<VERY_HIGH, 2>>>>, 8),
    getEmotionStats([happy |-> 2, anxious |-> 1],
                    <<<<MODERATE, 2>>, <<LOW, 1>>>>, 3) }

push(cond, text) == IF cond THEN <<msg(text)>> ELSE <<>>

generateBasicAnalysis(stats) ==
  LET highIntensityCount == stats.intensityDistribution[HIGH]
                            + stats.intensityDistribution[VERY_HIGH]
      totalEntries == stats.totalEntries
      intense == 10 * highIntensityCount > 6 * totalEntries
      moderate == ~intense /\ 10 * highIntensityCount < 2 * totalEntries
      stressed == stats.averageStressLevel > 7
      relaxed == ~stressed /\ stats.averageStressLevel < 4
      negativeCount == reduceSum(stats.emotionDistribution, negativeEmotions)
      negative == 10 * negativeCount > 6 * totalEntries
      consistent == totalEntries > 20
      limited == ~consistent /\ totalEntries < 5
      veryHigh == stats.mostCommonIntensity = VERY_HIGH
      balanced == ~veryHigh /\ stats.mostCommonIntensity = MODERATE
      insights == push(intense, "emotions usually have high intensity")
                  \o push(moderate, "emotional reactions are moderate")
                  \o push(consistent, "consistent tracking shows self-awareness")
                  \o push(limited, "limited tracking data available")
      concerns == push(intense, "high intensity may indicate stress")
                  \o push(stressed, "elevated stress level")
                  \o push(negative, "high frequency of negative emotions")
                  \o push(veryHigh, "very high intensity prevails")
      positives == push(moderate, "you keep emotional stability")
                   \o push(relaxed, "well managed stress level")
                   \o push(~negative, "good emotional balance")
                   \o push(consistent, "regular emotional check-ins")
                   \o push(balanced, "balanced intensity levels")
      riskFactors == push(stressed, "chronic high stress")
                     \o push(negative, "persistent negative mood")
                     \o push(veryHigh, "emotional overload patterns")
  IN  Obj([insights |-> Arr(insights),
           trends |-> Arr(<<msg("tracking period may be too short for trends")>>),
           concerns |-> Arr(concerns),
           positives |-> Arr(positives),
           emotionalBalance |->
             IF Len(concerns) > Len(positives)
             THEN msg("needs attention") ELSE msg("generally balanced"),
           riskFactors |-> Arr(riskFactors)])

(* The pushes of one pass of emotionsList.forEach, by target array          *)
RECURSIVE forEachEmotion(_, _)
forEachEmotion(emotionsList, target) ==
  IF emotionsList = <<>> THEN <<>>
  ELSE LET emotion == Head(emotionsList)
           anxious == emotion.emotion = "anxious"
           sad == emotion.emotion = "sad"
           overwhelmed == emotion.emotion = "overwhelmed"
           stressed == emotion.stressLevel > 7
           pushed ==
             CASE target = "immediate" ->
                    push(anxious, "practise deep breathing")
                    \o push(sad, "reach out to people close to you")
                    \o push(overwhelmed, "break tasks into smaller parts")
                    \o push(stressed, "take a break and rest")
               [] target = "shortTerm" -> push(sad, "do things you enjoy")
               [] target = "coping" ->
                    push(anxious, "grounding technique 5-4-3-2-1")
                    \o push(overwhelmed, "time management techniques")
               [] OTHER -> <<>>
       IN  pushed \o forEachEmotion(Tail(emotionsList), target)

generateBasicRecommendations(emotions, stats) ==
  IF stats = JSUndefined
  THEN LET immediate == forEachEmotion(emotions, "immediate")
           shortTerm == forEachEmotion(emotions, "shortTerm")
       IN  Obj([immediate |->
                  Arr(IF immediate = <<>>
                      THEN <<msg("practise mindful breathing")>> ELSE immediate),
                shortTerm |->
                  Arr(IF shortTerm = <<>>
                      THEN <<msg("keep an emotion diary")>> ELSE shortTerm),
                longTerm |-> Arr(<<msg("develop emotional regulation skills")>>),
                professionalHelp |->
                  Bool(\E i \in DOMAIN emotions : emotions[i].stressLevel > 7),
                resources |-> Arr(<<msg("meditation and relaxation apps")>>),
                coping |-> Arr(forEachEmotion(emotions, "coping"))])
  ELSE LET totalEntries == stats.totalEntries
           stressed == stats.averageStressLevel > 7
           highIntensityCount == stats.intensityDistribution[HIGH]
                                 + stats.intensityDistribution[VERY_HIGH]
           intense == 10 * highIntensityCount > 5 * totalEntries
           sad == 10 * stats.emotionDistribution["sad"] > 3 * totalEntries
           anxious == 10 * stats.emotionDistribution["anxious"] > 3 * totalEntries
           overwhelmed ==
             10 * stats.emotionDistribution["overwhelmed"] > 2 * totalEntries
           positiveCount == reduceSum(stats.emotionDistribution, positiveEmotions)
           fewPositive == 10 * positiveCount < 3 * totalEntries
       IN  Obj([immediate |->
                  Arr(push(stressed, "practise deep breathing")
                      \o push(stressed, "take short breaks during the day")
                      \o push(intense, "use grounding techniques")
                      \o push(sad, "do things you enjoy")
                      \o push(anxious, "practise mindfulness meditation")
                      \o push(overwhelmed, "break tasks into manageable steps")),
                shortTerm |->
                  Arr(push(stressed, "consider stress management techniques")
                      \o push(intense, "practise emotional regulation skills")
                      \o push(sad, "reach out to friends or family")
                      \o push(overwhelmed, "learn to say no")
                      \o push(fewPositive, "plan pleasant activities")),
                longTerm |->
                  Arr(push(sad, "consider consulting a psychologist")
                      \o <<msg("keep a regular exercise routine"),
                           msg("set a constant sleep schedule")>>
                      \o push(fewPositive, "build positive social ties")),
                professionalHelp |-> Bool(stressed \/ sad),
                resources |->
                  Arr(push(anxious, "meditation apps: Headspace, Calm")
                      \o <<msg("journaling for emotional processing"),
                           msg("mental health support groups")>>
                      \o push(fewPositive, "gratitude exercises")),
                coping |->
                  Arr(push(intense, "sensory grounding exercise 5-4-3-2-1")
                      \o push(anxious, "progressive muscle relaxation")
                      \o push(overwhelmed, "time management and prioritisation"))])

(* Ten times the score: Math.round(x * 10) / 10 compared in tenths          *)
calculateWellbeingScore(stats) ==
  LET positiveCount == reduceSum(stats.emotionDistribution, positiveEmotions)
      total == stats.totalEntries
      intensityFactor ==
        CASE stats.mostCommonIntensity \in {VERY_LOW, LOW} -> 8
          [] stats.mostCommonIntensity = MODERATE -> 6
          [] stats.mostCommonIntensity = HIGH -> 4
          [] stats.mostCommonIntensity = VERY_HIGH -> 2
          [] OTHER -> 5
      rest == intensityFactor * 3 + (11 - stats.averageStressLevel) * 3
  IN  IF total > 0
      THEN (2 * (40 * positiveCount + rest * total) + total) \div (2 * total)
      ELSE rest

translateIntensity(intensity) ==
  CASE intensity = VERY_LOW -> "very low"
    [] intensity = LOW -> "low"
    [] intensity = MODERATE -> "moderate"
    [] intensity = HIGH -> "high"
    [] intensity = VERY_HIGH -> "very high"

generateBasicSummary(stats, analysis, recommendations) ==
  LET wellbeingScore == calculateWellbeingScore(stats)
      keyInsights == slice(getProp(analysis, "insights"), 3)
      actionPlan == concat(getProp(recommendations, "immediate"),
                           slice(getProp(recommendations, "shortTerm"), 2))
      nextSteps == slice(getProp(recommendations, "longTerm"), 3)
  IN  IF THROWN \in {keyInsights, actionPlan, nextSteps} THEN THROWN
      ELSE Obj([emotionalWellbeing |->
                  IF wellbeingScore > 70 THEN msg("good")
                  ELSE IF wellbeingScore > 40 THEN msg("satisfactory")
                  ELSE msg("needs attention"),
                keyInsights |-> keyInsights,
                actionPlan |-> actionPlan,
                progress |->
                  [t |-> "string", s |-> <<"tracked emotions">>,
                   totalEntries |-> stats.totalEntries,
                   intensity |-> translateIntensity(stats.mostCommonIntensity)],
                nextSteps |-> nextSteps])

(* TRUE when building the summary prompt throws                             *)
buildSummaryPromptThrows(analysis, recommendations) ==
  \/ join(getProp(analysis, "insights")) = THROWN
  \/ join(getProp(analysis, "concerns")) = THROWN
  \/ join(concat(getProp(recommendations, "immediate"),
                 getProp(recommendations, "shortTerm"))) = THROWN

ANALYSIS_JSON ==
  "{\"insights\":[\"i\"],\"trends\":[],\"concerns\":[\"c\"],\"positives\":[],\"emotionalBalance\":\"b\",\"riskFactors\":[]}"
ANALYSIS_TEXT_JSON == "{\"insights\":\"i\",\"concerns\":[]}"
RECOMMENDATION_JSON ==
  "{\"immediate\":[\"m\"],\"shortTerm\":[\"s\"],\"longTerm\":[\"l\"],\"professionalHelp\":false,\"resources\":[],\"coping\":[]}"
SUMMARY_JSON ==
  "{\"emotionalWellbeing\":\"w\",\"keyInsights\":[],\"actionPlan\":[],\"progress\":\"p\",\"nextSteps\":[]}"

(* JSON.parse on the replies the model draws from; any other text is a      *)
(* SyntaxError.                                                             *)
JSONparse(text) ==
  CASE text = "{}" -> [ok |-> TRUE, value |-> Obj(<<>>)]
    [] text = "null" -> [ok |-> TRUE, value |-> JSNull]
    [] text = ANALYSIS_JSON ->
         [ok |-> TRUE,
          value |-> Obj([insights |-> Arr(<<Str(<<"i">>)>>),
                         trends |-> Arr(<<>>),
                         concerns |-> Arr(<<Str(<<"c">>)>>),
                         positives |-> Arr(<<>>),
                         emotionalBalance |-> Str(<<"b">>),
                         riskFactors |-> Arr(<<>>)])]
    [] text = ANALYSIS_TEXT_JSON ->
         [ok |-> TRUE,
          value |-> Obj([insights |-> Str(<<"i">>), concerns |-> Arr(<<>>)])]
    [] text = RECOMMENDATION_JSON ->
         [ok |-> TRUE,
          value |-> Obj([immediate |-> Arr(<<Str(<<"m">>)>>),
                         shortTerm |-> Arr(<<Str(<<"s">>)>>),
                         longTerm |-> Arr(<<Str(<<"l">>)>>),
                         professionalHelp |-> Bool(FALSE),
                         resources |-> Arr(<<>>),
                         coping |-> Arr(<<>>)])]
    [] text = SUMMARY_JSON ->
         [ok |-> TRUE,
          value |-> Obj([emotionalWellbeing |-> Str(<<"w">>),
                         keyInsights |-> Arr(<<>>),
                         actionPlan |-> Arr(<<>>),
                         progress |-> Str(<<"p">>),
                         nextSteps |-> Arr(<<>>)])]
    [] OTHER -> [ok |-> FALSE, value |-> JSUndefined]

parseAnalysisResponse(content) ==
  IF JSONparse(content).ok THEN JSONparse(content).value
  ELSE Obj([insights |-> Arr(<<msg("could not parse the detailed analysis")>>),
            trends |-> Arr(<<msg("trend data unavailable")>>),
            concerns |-> Arr(<<>>),
            positives |-> Arr(<<>>),
            emotionalBalance |-> msg("analysis in progress"),
            riskFactors |-> Arr(<<>>)])

parseRecommendationResponse(content) ==
  IF JSONparse(content).ok THEN JSONparse(content).value
  ELSE Obj([immediate |-> Arr(<<msg("could not get detailed recommendations")>>),
            shortTerm |-> Arr(<<>>),
            longTerm |-> Arr(<<>>),
            professionalHelp |-> Bool(FALSE),
            resources |-> Arr(<<>>),
            coping |-> Arr(<<>>)])

parseSummaryResponse(content) ==
  IF JSONparse(content).ok THEN JSONparse(content).value
  ELSE Obj([emotionalWellbeing |-> msg("summary is being prepared"),
            keyInsights |-> Arr(<<>>),
            actionPlan |-> Arr(<<>>),
            progress |-> msg("analysis in progress"),
            nextSteps |-> Arr(<<>>)])

(* What chat.completions.create does on one call: it throws, or it answers  *)
(* with a text (an absent content reads as the empty text).                 *)
ApiOutcomes(wellFormed) ==
  {[error |-> TRUE, content |-> ""]}
  \cup {[error |-> FALSE, content |-> c] : c \in {"", "{}", "null"} \cup wellFormed}

callOpenAI(openai, outcome) ==
  IF ~openai \/ outcome.error THEN [threw |-> TRUE, content |-> ""]
  ELSE [threw |-> FALSE, content |-> outcome.content]

analyzeEmotions(openai, stats, outcome) ==
  LET completion == callOpenAI(openai, outcome)
      attempt == IF ~openai THEN generateBasicAnalysis(stats)
                 ELSE IF completion.threw THEN THROWN
                 ELSE parseAnalysisResponse(completion.content)
  IN  IF attempt = THROWN THEN generateBasicAnalysis(stats) ELSE attempt

generateRecommendations(openai, emotions, stats, outcome) ==
  LET completion == callOpenAI(openai, outcome)
      attempt == IF ~openai THEN generateBasicRecommendations(emotions, stats)
                 ELSE IF completion.threw THEN THROWN
                 ELSE parseRecommendationResponse(completion.content)
  IN  IF attempt = THROWN
      THEN generateBasicRecommendations(emotions, stats) ELSE attempt

generateOverallSummary(openai, stats, analysis, recommendations, outcome) ==
  LET completion == callOpenAI(openai, outcome)
      attempt ==
        IF ~openai THEN generateBasicSummary(stats, analysis, recommendations)
        ELSE IF buildSummaryPromptThrows(analysis, recommendations) THEN THROWN
        ELSE IF completion.threw THEN THROWN
        ELSE parseSummaryResponse(completion.content)
  IN  IF attempt = THROWN
      THEN generateBasicSummary(stats, analysis, recommendations) ELSE attempt

FakeEntries ==
  {<<[emotion |-> e, stressLevel |-> 0]>> : e \in {"anxious", "sad", "joyful"}}

noServiceCall ==
  [op |-> "none", stats |-> JSUndefined, outcome |-> [error |-> FALSE, content |-> ""],
   analysis |-> JSUndefined, recommendations |-> JSUndefined,
   emotions |-> <<>>, result |-> JSUndefined]

aiFrame == UNCHANGED <<now, streaks, entries, res, undisturbed, conv,
                       authReq, authRes, userDocs, race>>

(* new OpenAIService(): a client only when OPENAI_API_KEY is set            *)
NewOpenAIService(apiKey) ==
  /\ ~ai.constructed
  /\ ai' = [ai EXCEPT !.constructed = TRUE, !.openai = apiKey]
  /\ aiFrame

(* analyzeEmotions as getEmotionAnalysis and getOverallSummary call it; a   *)
(* resolved result is what the caller holds as analysis.                    *)
AnalyzeEmotions(stats, outcome) ==
  LET result == analyzeEmotions(ai.openai, stats, outcome)
  IN  /\ ai.constructed
      /\ ai' = [ai EXCEPT
                  !.analysis = IF result = THROWN THEN @ ELSE result,
                  !.last = [noServiceCall EXCEPT
                              !.op = "analyzeEmotions", !.stats = stats,
                              !.outcome = outcome, !.result = result]]
      /\ aiFrame

(* generateRecommendations as getRecommendations and getOverallSummary call *)
(* it (with stats) and as generateInstantRecommendation calls it (one       *)
(* entry, no stats)                                                         *)
GenerateRecommendations(emotions, stats, outcome) ==
  LET result == generateRecommendations(ai.openai, emotions, stats, outcome)
  IN  /\ ai.constructed
      /\ ai' = [ai EXCEPT
                  !.recommendations = IF result = THROWN THEN @ ELSE result,
                  !.last = [noServiceCall EXCEPT
                              !.op = "generateRecommendations",
                              !.stats = stats, !.emotions = emotions,
                              !.outcome = outcome, !.result = result]]
      /\ aiFrame

(* generateOverallSummary as getOverallSummary calls it: on the analysis    *)
(* and the recommendations the two earlier calls resolved with              *)
GenerateOverallSummary(stats, outcome) ==
  LET result == generateOverallSummary(ai.openai, stats, ai.analysis,
                                       ai.recommendations, outcome)
  IN  /\ ai.constructed
      /\ ai.analysis # JSUndefined
      /\ ai.recommendations # JSUndefined
      /\ ai' = [ai EXCEPT
                  !.last = [noServiceCall EXCEPT
                              !.op = "generateOverallSummary",
                              !.stats = stats, !.outcome = outcome,
                              !.analysis = ai.analysis,
                              !.recommendations = ai.recommendations,
                              !.result = result]]
      /\ aiFrame

AINext ==
  \/ \E apiKey \in BOOLEAN : NewOpenAIService(apiKey)
  \/ \E stats \in AIStats,
        outcome \in ApiOutcomes({ANALYSIS_JSON, ANALYSIS_TEXT_JSON}) :
       AnalyzeEmotions(stats, outcome)
  \/ \E stats \in AIStats, outcome \in ApiOutcomes({RECOMMENDATION_JSON}) :
       GenerateRecommendations(<<>>, stats, outcome)
  \/ \E emotions \in FakeEntries, outcome \in ApiOutcomes({RECOMMENDATION_JSON}) :
       GenerateRecommendations(emotions, JSUndefined, outcome)
  \/ \E stats \in AIStats, outcome \in ApiOutcomes({SUMMARY_JSON}) :
       GenerateOverallSummary(stats, outcome)

(***************************************************************************)
(* Overlapping requests.  A handler gives way at each await, so a request   *)
(* is a sequence of steps, one per database call, and the steps of the      *)
(* requests in flight interleave.  race.calls is the bag of requests in     *)
(* flight: for each, the handler it runs, where it stands and what it has   *)
(* read.  An answer leaves nothing behind in the program; of the answers    *)
(* only race.acked is kept, the number of createEmotion requests per user   *)
(* answered 201 with a streak.  Requests that are answered before their     *)
(* first write (a rejected body, a read that finds the record) touch        *)
(* nothing the others see and are taken one at a time in Spec.              *)
(***************************************************************************)
MaxCalls == 2

newCall(op, userId, pc) ==
  [op |-> op, userId |-> userId, pc |-> pc, found |-> {}, today |-> NULL]

callsAt(pc) == {this \in BagToSet(race.calls) : this.pc = pc}

accepting == BagCardinality(race.calls) < MaxCalls

(* updateUserStreak after its findByUserId (lines 406-446): the write it    *)
(* chooses from the record it has read, applied to the collection as it is  *)
(* when the write arrives.                                                  *)
updateUserStreakWrite(S, userId, found, today) ==
  IF found = {}
  THEN createStreak(S, userId, firstStreakData(today))
  ELSE
    LET streak == oneOf(found)
        lastActivity ==
          setHours0(IF streak.lastActivityDate # NULL
                    THEN streak.lastActivityDate ELSE EpochTick)
    IN  IF lastActivity = today
        THEN incrementMoodCount(S, userId)
        ELSE IF lastActivity = today - TicksPerDay
        THEN updateStreak(S, userId, continueStreakData(streak, today))
        ELSE updateStreak(S, userId, newStreakData(streak, today))

raceFrame ==
  UNCHANGED <<res, undisturbed, conv, authReq, authRes, userDocs, ai>>

(* the request is accepted and reaches its first await                      *)
begins(request) ==
  race' = [race EXCEPT !.calls = @ (+) SetToBag({request})]

(* the request goes on to its next await                                    *)
proceeds(this, next) ==
  race' = [race EXCEPT
             !.calls = (@ (-) SetToBag({this})) (+) SetToBag({next})]

(* the request is answered and leaves                                       *)
answered(this, acked) ==
  race' = [calls |-> race.calls (-) SetToBag({this}), acked |-> acked]

(* createEmotion with a body that passes validation, up to the end of       *)
(* emotionRepository.create (lines 33-76)                                   *)
CreateEmotionBegins(userId, body) ==
  LET emotionData == [userId |-> userId,
                      emotion |-> emotionDataOf[body].emotion,
                      intensity |-> emotionDataOf[body].intensity,
                      createdAt |-> now]
  IN  /\ accepting
      /\ Len(entries) < MaxEntries
      /\ truthy(body.emotion)
      /\ typeof(body.emotion) = "string"
      /\ emotionDataOf[body].valid
      /\ ~emotionEntrySchemaRejects(emotionData)
      /\ entries' = Append(entries, emotionData)
      /\ begins(newCall("createEmotion", userId, "find"))
      /\ UNCHANGED <<now, streaks>>
      /\ raceFrame

(* updateUserStreak lines 399-405: today is taken, the record is read       *)
CreateEmotionFindsStreak ==
  \E this \in callsAt("find") :
    /\ proceeds(this, [this EXCEPT
                         !.found = findByUserId(streaks, this.userId),
                         !.today = todayOf(now),
                         !.pc = "write"])
    /\ UNCHANGED <<now, streaks, entries>>
    /\ raceFrame

(* updateUserStreak lines 407-446: the one write; a createStreak that hits  *)
(* the unique index throws, which createEmotion swallows and answers 201    *)
(* with streak: null                                                        *)
CreateEmotionWritesStreak ==
  \E this \in callsAt("write") :
    /\ UNCHANGED <<now, entries>>
    /\ raceFrame
    /\ \/ /\ this.found = {} /\ createStreakThrows(streaks, this.userId)
          /\ answered(this, race.acked)
          /\ UNCHANGED streaks
       \/ /\ ~(this.found = {} /\ createStreakThrows(streaks, this.userId))
          /\ streaks' = updateUserStreakWrite(streaks, this.userId,
                                              this.found, this.today)
          /\ proceeds(this, [this EXCEPT !.pc = "respond"])

(* createEmotion lines 80-103: the record is read again and sent with 201   *)
CreateEmotionResponds ==
  \E this \in callsAt("respond") :
    /\ answered(this,
                IF streakSummary(findByUserId(streaks, this.userId)) = <<>>
                THEN race.acked
                ELSE [race.acked EXCEPT ![this.userId] = @ + 1])
    /\ UNCHANGED <<now, streaks, entries>>
    /\ raceFrame

(* getUserStreak / getStreakStats whose findByUserId finds no record        *)
StreakReadBegins(op, userId) ==
  /\ accepting
  /\ findByUserId(streaks, userId) = {}
  /\ begins(newCall(op, userId, "create"))
  /\ UNCHANGED <<now, streaks, entries>>
  /\ raceFrame

(* their createStreak of the zeroed record: answered 200 with the new       *)
(* record, or 500 when the unique index turns the save away                 *)
StreakReadCreates ==
  \E this \in callsAt("create") :
    /\ answered(this, race.acked)
    /\ UNCHANGED <<now, entries>>
    /\ raceFrame
    /\ \/ /\ createStreakThrows(streaks, this.userId)
          /\ UNCHANGED streaks
       \/ /\ ~createStreakThrows(streaks, this.userId)
          /\ streaks' = createStreak(streaks, this.userId, zeroStreak)

(* resetUserStreak on a record: one findOneAndUpdate and the response       *)
ResetUserStreakRuns(userId) ==
  /\ accepting
  /\ findByUserId(streaks, userId) # {}
  /\ streaks' = resetStreak(streaks, userId)
  /\ UNCHANGED <<now, entries, race>>
  /\ raceFrame

(* A day passes between two steps.                                          *)
DayPasses ==
  /\ now + TicksPerDay <= MaxDay * TicksPerDay
  /\ now' = now + TicksPerDay
  /\ UNCHANGED <<streaks, entries, race>>
  /\ raceFrame

RaceNext ==
  \/ \E userId \in Users, body \in EmotionBodies :
       CreateEmotionBegins(userId, body)
  \/ CreateEmotionFindsStreak
  \/ CreateEmotionWritesStreak
  \/ CreateEmotionResponds
  \/ \E op \in {"getUserStreak", "getStreakStats"}, userId \in Users :
       StreakReadBegins(op, userId)
  \/ StreakReadCreates
  \/ \E userId \in Users : ResetUserStreakRuns(userId)
  \/ DayPasses

Init ==
  /\ now = FirstDay * TicksPerDay
  /\ streaks = {}
  /\ entries = <<>>
  /\ res = response("none", NoUser, 0, <<>>)
  /\ undisturbed = [u \in Users |-> TRUE]
  /\ conv = noCall
  /\ authReq = noRequest
  /\ authRes = noResponse
  /\ userDocs = {}
  /\ ai = [constructed |-> FALSE, openai |-> FALSE, analysis |-> JSUndefined,
           recommendations |-> JSUndefined, last |-> noServiceCall]
  /\ race = [calls |-> EmptyBag,
             acked |-> [u \in Users |-> 0]]

Spec == Init /\ [][StreakNext]_vars

SpecConv == Init /\ [][ConvNext]_vars

SpecAuth == Init /\ [][AuthNext]_vars

SpecAI == Init /\ [][AINext]_vars

SpecRace == Init /\ [][RaceNext]_vars

(***************************************************************************)
(* Properties of the streak state machine                                  *)
(***************************************************************************)
theStreak(S, userId) == oneOf(findByUserId(S, userId))
hasStreak(S, userId) == findByUserId(S, userId) # {}

userEntries(userId) ==
  {i \in 1..Len(entries) : entries[i].userId = userId}

hasEntryOn(userId, day) ==
  \E i \in userEntries(userId) : dayOf(entries[i].createdAt) = day

RECURSIVE consecutiveDays(_, _)
consecutiveDays(userId, day) ==
  IF day >= 0 /\ hasEntryOn(userId, day)
  THEN 1 + consecutiveDays(userId, day - 1)
  ELSE 0

lastEntryDay(userId) ==
  dayOf(entries[CHOOSE i \in userEntries(userId) :
                  \A j \in userEntries(userId) : j <= i].createdAt)

(* This step is a createEmotion for userId that stored its entry, updated   *)
(* the streak and answered 201 with the streak.                             *)
createEmotionSucceeds(userId) ==
  /\ Len(entries') = Len(entries) + 1
  /\ entries'[Len(entries')].userId = userId
  /\ res'.op = "createEmotion"
  /\ res'.status = 201
  /\ res'.streak # <<>>

(* C1: for a user who started without a streak record and whose streak has  *)
(* since been touched only by successful createEmotion calls (no reset, no  *)
(* delete, no failed streak update), currentStreak is the number of         *)
(* consecutive calendar days, ending with the day of the latest call, on    *)
(* each of which the user created an entry.                                 *)
C1_StreakCountsConsecutiveDays ==
  \A u \in Users :
    (undisturbed[u] /\ userEntries(u) # {}) =>
      /\ hasStreak(streaks, u)
      /\ theStreak(streaks, u).currentStreak
           = consecutiveDays(u, lastEntryDay(u))

C1_Witness ==
  \E u \in Users :
    /\ undisturbed[u]
    /\ res.op = "createEmotion" /\ res.status = 201 /\ res.streak # <<>>
    /\ hasStreak(streaks, u)
    /\ theStreak(streaks, u).currentStreak = 3
    /\ consecutiveDays(u, dayOf(now)) = 3

(* C2: when the record's lastActivityDate is on the calendar day before     *)
(* today, a successful createEmotion sets currentStreak to the old value    *)
(* plus 1, longestStreak to the maximum of its old value and the new        *)
(* currentStreak, lastActivityDate to today and isActive to true.           *)
C2_StreakContinues ==
  [][\A u \in Users :
       (/\ createEmotionSucceeds(u)
        /\ hasStreak(streaks, u)
        /\ theStreak(streaks, u).lastActivityDate # NULL
        /\ dayOf(theStreak(streaks, u).lastActivityDate) = dayOf(now) - 1)
       =>
       LET old == theStreak(streaks, u)
           new == theStreak(streaks', u)
       IN  /\ hasStreak(streaks', u)
           /\ new.currentStreak = old.currentStreak + 1
           /\ new.longestStreak =
                (IF old.longestStreak > new.currentStreak
                 THEN old.longestStreak ELSE new.currentStreak)
           /\ new.lastActivityDate # NULL
           /\ dayOf(new.lastActivityDate) = dayOf(now)
           /\ new.isActive = TRUE]_vars

entriesOn(userId, day) ==
  {i \in userEntries(userId) : dayOf(entries[i].createdAt) = day}

C2_Witness ==
  \E u \in Users :
    /\ res.op = "createEmotion" /\ res.status = 201 /\ res.streak # <<>>
    /\ Cardinality(entriesOn(u, dayOf(now))) = 1
    /\ hasEntryOn(u, dayOf(now) - 1)
    /\ hasStreak(streaks, u)
    /\ theStreak(streaks, u).currentStreak = 2
    /\ theStreak(streaks, u).longestStreak = 2
    /\ theStreak(streaks, u).lastActivityDate = todayOf(now)

(* C3: when the record's lastActivityDate is earlier than yesterday or is   *)
(* absent, a successful createEmotion sets currentStreak to 1,              *)
(* streakStartDate and lastActivityDate to today and isActive to true, and  *)
(* leaves longestStreak unchanged.                                          *)
C3_StreakResets ==
  [][\A u \in Users :
       (/\ createEmotionSucceeds(u)
        /\ hasStreak(streaks, u)
        /\ \/ theStreak(streaks, u).lastActivityDate = NULL
           \/ dayOf(theStreak(streaks, u).lastActivityDate) < dayOf(now) - 1)
       =>
       LET old == theStreak(streaks, u)
           new == theStreak(streaks', u)
       IN  /\ hasStreak(streaks', u)
           /\ new.currentStreak = 1
           /\ new.streakStartDate # NULL
           /\ new.lastActivityDate # NULL
           /\ dayOf(new.streakStartDate) = dayOf(now)
           /\ dayOf(new.lastActivityDate) = dayOf(now)
           /\ new.isActive = TRUE
           /\ new.longestStreak = old.longestStreak]_vars

C3_Witness ==
  \E u \in Users :
    /\ res.op = "createEmotion" /\ res.status = 201 /\ res.streak # <<>>
    /\ Cardinality(entriesOn(u, dayOf(now))) = 1
    /\ ~hasEntryOn(u, dayOf(now) - 1)
    /\ hasEntryOn(u, dayOf(now) - 3)
    /\ hasEntryOn(u, dayOf(now) - 2)
    /\ undisturbed[u]
    /\ hasStreak(streaks, u)
    /\ theStreak(streaks, u).currentStreak = 1
    /\ theStreak(streaks, u).longestStreak = 2
    /\ theStreak(streaks, u).streakStartDate = todayOf(now)

(* C4: for a user without a streak record, a successful createEmotion       *)
(* creates exactly one record for that user, with currentStreak = 1,        *)
(* longestStreak = 1, totalMoodTracked = 1 and streakStartDate =            *)
(* lastActivityDate = today.                                                *)
C4_StreakStarts ==
  [][\A u \in Users :
       (createEmotionSucceeds(u) /\ ~hasStreak(streaks, u))
       =>
       /\ Cardinality(findByUserId(streaks', u)) = 1
       /\ LET new == theStreak(streaks', u)
          IN  /\ new.currentStreak = 1
              /\ new.longestStreak = 1
              /\ new.totalMoodTracked = 1
              /\ new.streakStartDate # NULL
              /\ new.lastActivityDate = new.streakStartDate
              /\ dayOf(new.streakStartDate) = dayOf(now)]_vars

C4_Witness ==
  \E u \in Users :
    /\ res.op = "createEmotion" /\ res.status = 201 /\ res.streak # <<>>
    /\ Len(entries) = 1
    /\ undisturbed[u]
    /\ Cardinality(findByUserId(streaks, u)) = 1
    /\ theStreak(streaks, u).totalMoodTracked = 1
    /\ theStreak(streaks, u).longestStreak = 1

(* C10: in every reachable state of a streak record, longestStreak is at    *)
(* least currentStreak.                                                     *)
C10_LongestAtLeastCurrent ==
  \A d \in streaks : d.longestStreak >= d.currentStreak

(***************************************************************************)
(* Properties of the conversion functions                                  *)
(***************************************************************************)
isWholeNumber(x, lo, hi) ==
  x.t = "number" /\ x.v % Scale = 0 /\ x.v >= lo * Scale /\ x.v <= hi * Scale

(* The number a string writes, in the everyday sense: the whole string,     *)
(* apart from surrounding blanks, is a numeric literal.                     *)
numericString(s) == trim(s) # <<>> /\ StringToNumber(s) # NaN

claimedReading(x) ==
  IF typeof(x) = "number" THEN x
  ELSE IF typeof(x) = "string" /\ numericString(x.s) THEN StringToNumber(x.s)
  ELSE NaN

(* The number written by the longest leading part of the string (after      *)
(* leading blanks) that is a numeric literal.                               *)
leadingNumber(s) ==
  LET t == trimStart(s)
      good == {k \in 1..Len(t) : numericString(SubSeq(t, 1, k))}
  IN  IF good = {} THEN NaN
      ELSE StringToNumber(
             SubSeq(t, 1, CHOOSE k \in good : \A j \in good : j <= k))

prefixReading(x) ==
  IF typeof(x) = "number" THEN x
  ELSE IF typeof(x) = "string" THEN leadingNumber(x.s)
  ELSE NaN

clampLaw(val, out) ==
  /\ isWholeNumber(out, 1, 10)
  /\ (val.t = "number" /\ val.v < 1 * Scale) => out = Num(1 * Scale)
  /\ (val.t = "number" /\ val.v > 10 * Scale) => out = Num(10 * Scale)
  /\ isWholeNumber(val, 1, 10) => out = val
  /\ val.t # "number" => out = Num(5 * Scale)

(* C5 as stated: normalizeIntensity returns an integer from 1 to 10; a      *)
(* number below 1 gives 1, above 10 gives 10, an integer from 1 to 10       *)
(* itself, and every value that is not a finite number, every non-numeric   *)
(* string included, gives 5.                                                *)
C5_NormalizeIntensityAsStated ==
  conv.fn = "normalizeIntensity" =>
    clampLaw(claimedReading(conv.input), conv.output)

(* C5 amended: the same, with a string read as the number written by its    *)
(* longest leading numeric part (after leading blanks), so that only a      *)
(* string without such a part counts as not a finite number.                *)
C5_NormalizeIntensity ==
  conv.fn = "normalizeIntensity" =>
    clampLaw(prefixReading(conv.input), conv.output)

C5_Witness ==
  /\ conv.fn = "normalizeIntensity"
  /\ conv.input = Str(<<"7", "a">>)
  /\ conv.output = Num(7 * Scale)

(* C6: the English and Ukrainian vocabularies correspond one to one:        *)
(* toEnglish(toUkrainian(e)) = e for each of the eight English types and    *)
(* toUkrainian(toEnglish(u)) = u for each of the eight Ukrainian words.     *)
C6_VocabularyRoundTrip ==
  /\ Cardinality(EmotionType) = 8
  /\ Cardinality(EmotionTypeUkrainian) = 8
  /\ (conv.fn = "toEnglish" /\ conv.prevFn = "toUkrainian"
      /\ conv.prevInput.s \in EmotionType)
       => conv.output = conv.prevInput
  /\ (conv.fn = "toUkrainian" /\ conv.prevFn = "toEnglish"
      /\ conv.prevInput.s \in EmotionTypeUkrainian)
       => conv.output = conv.prevInput

C6_Witness ==
  /\ conv.fn = "toUkrainian" /\ conv.prevFn = "toEnglish"
  /\ conv.prevInput = Str(ZLYI)
  /\ conv.input = Str(ANGRY)
  /\ conv.output = Str(ZLYI)

levelOfNumber(v) ==
  CASE v = 1 * Scale -> VERY_LOW
    [] v = 2 * Scale -> LOW
    [] v = 3 * Scale -> MODERATE
    [] v = 4 * Scale -> HIGH
    [] v = 5 * Scale -> VERY_HIGH

isLevelName(s, l) ==
  /\ Len(s) = Len(l)
  /\ \A i \in 1..Len(l) : s[i] = l[i] \/ s[i] = charToLower(l[i])

digitStrings == {<<"1">>, <<"2">>, <<"3">>, <<"4">>, <<"5">>}

(* C9 as stated: toDatabase returns the five levels for the numbers 1 to 5  *)
(* and for the strings '1' to '5', the level itself for a level name in any *)
(* letter case, and null for every other input.                             *)
C9_ToDatabaseAsStated ==
  conv.fn = "toDatabase" =>
    LET x == conv.input
        y == conv.output
    IN  IF isWholeNumber(x, 1, 5) THEN y = Str(levelOfNumber(x.v))
        ELSE IF x.t = "string" /\ x.s \in digitStrings
        THEN y = Str(levelOfNumber(digitValue(x.s[1]) * Scale))
        ELSE IF x.t = "string" /\ \E l \in IntensityLevel : isLevelName(x.s, l)
        THEN y = Str(CHOOSE l \in IntensityLevel : isLevelName(x.s, l))
        ELSE y = JSNull

(* C9 amended: the strings that give a level by number are all those that   *)
(* Number() reads as an integer from 1 to 5 (' 1', '01', '1.0', '5.' as     *)
(* well as '1' to '5'); the rest as stated.                                 *)
C9_ToDatabase ==
  conv.fn = "toDatabase" =>
    LET x == conv.input
        y == conv.output
    IN  IF isWholeNumber(x, 1, 5) THEN y = Str(levelOfNumber(x.v))
        ELSE IF x.t = "string" /\ isWholeNumber(StringToNumber(x.s), 1, 5)
        THEN y = Str(levelOfNumber(StringToNumber(x.s).v))
        ELSE IF x.t = "string" /\ \E l \in IntensityLevel : isLevelName(x.s, l)
        THEN y = Str(CHOOSE l \in IntensityLevel : isLevelName(x.s, l))
        ELSE y = JSNull

C9_Witness ==
  /\ conv.fn = "toDatabase"
  /\ conv.input = Str(<<" ", "1">>)
  /\ conv.output = Str(VERY_LOW)

(***************************************************************************)
(* Properties of the user router                                           *)
(***************************************************************************)
AuthFailureCodes ==
  {"TOKEN_MISSING", "TOKEN_INVALID", "USER_NOT_FOUND", "AUTH_ERROR"}

(* The request carries a token, the token verifies, and the user it names   *)
(* is found among the given users.                                          *)
authenticated(req, users) ==
  /\ truthy(extractToken(req))
  /\ req.jwtSecret
  /\ jwtVerify(extractToken(req).s).ok
  /\ ~req.dbFault
  /\ jwtVerify(extractToken(req).s).id \in users

(* C8: on every route of the user router the handler runs only after        *)
(* authenticateToken has extracted a token, verified it and found its user  *)
(* in the database; in every other case the request ends with 401 and one   *)
(* of the four codes, and the handler is not invoked.                       *)
C8_HandlerOnlyAfterAuthentication ==
  [][(authReq = noRequest /\ authReq' # noRequest) =>
       /\ authReq'.route \in UserRoutes
       /\ authRes'.handler # "none" =>
            /\ authenticated(authReq', userDocs)
            /\ authRes'.handler = authReq'.route
       /\ ~authenticated(authReq', userDocs) =>
            /\ authRes'.status = 401
            /\ authRes'.code \in AuthFailureCodes
            /\ authRes'.handler = "none"]_vars

C8_Witness ==
  /\ authReq # noRequest
  /\ authReq.authorization = Str(BEARER \o TOKEN_U1)
  /\ authRes.handler = "DELETE /:id"
  /\ authRes.user = "u1"
  /\ authRes.status = 200
  /\ "u1" \notin userDocs

(***************************************************************************)
(* Properties of OpenAIService                                             *)
(***************************************************************************)
(* What the rule-based generator of the latest call gives on its arguments  *)
ruleBasedResult(last) ==
  CASE last.op = "analyzeEmotions" -> generateBasicAnalysis(last.stats)
    [] last.op = "generateRecommendations" ->
         generateBasicRecommendations(last.emotions, last.stats)
    [] last.op = "generateOverallSummary" ->
         generateBasicSummary(last.stats, last.analysis, last.recommendations)

(* C7: analyzeEmotions, generateRecommendations and generateOverallSummary  *)
(* always resolve and never reject; without an API key, or when the API     *)
(* call fails, the result is the rule-based generator's.                    *)
C7_ServiceAlwaysResolves ==
  ai.last.op # "none" =>
    /\ ai.last.result # THROWN
    /\ (~ai.openai \/ ai.last.outcome.error) =>
         ai.last.result = ruleBasedResult(ai.last)

(***************************************************************************)
(* Further properties of the streak state machine                          *)
(***************************************************************************)
(* C12: after every createEmotion that answers 201 with a streak, the       *)
(* user's record has isActive = true, currentStreak at least 1 and          *)
(* lastActivityDate on today's calendar day, whatever calls preceded it.    *)
C12_StreakActiveAfterCreate ==
  [][\A u \in Users :
       createEmotionSucceeds(u) =>
         /\ hasStreak(streaks', u)
         /\ theStreak(streaks', u).isActive = TRUE
         /\ theStreak(streaks', u).currentStreak >= 1
         /\ theStreak(streaks', u).lastActivityDate # NULL
         /\ dayOf(theStreak(streaks', u).lastActivityDate) = dayOf(now)]_vars

(* C13: in every reachable state of a streak record with currentStreak at   *)
(* least 1, streakStartDate is set and is the calendar day exactly          *)
(* currentStreak - 1 days before lastActivityDate.                          *)
C13_StartDateMatchesStreak ==
  \A d \in streaks :
    d.currentStreak >= 1 =>
      /\ d.streakStartDate # NULL
      /\ d.lastActivityDate # NULL
      /\ dayOf(d.streakStartDate)
           = dayOf(d.lastActivityDate) - (d.currentStreak - 1)

(* C14: when the record's lastActivityDate is on today's calendar day, a    *)
(* successful createEmotion increases totalMoodTracked by exactly 1 and     *)
(* leaves currentStreak, longestStreak, streakStartDate, lastActivityDate   *)
(* and isActive unchanged.                                                  *)
C14_AlreadyLoggedToday ==
  [][\A u \in Users :
       (/\ createEmotionSucceeds(u)
        /\ hasStreak(streaks, u)
        /\ theStreak(streaks, u).lastActivityDate # NULL
        /\ dayOf(theStreak(streaks, u).lastActivityDate) = dayOf(now))
       =>
       LET old == theStreak(streaks, u)
           new == theStreak(streaks', u)
       IN  /\ hasStreak(streaks', u)
           /\ new.totalMoodTracked = old.totalMoodTracked + 1
           /\ new.currentStreak = old.currentStreak
           /\ new.longestStreak = old.longestStreak
           /\ new.streakStartDate = old.streakStartDate
           /\ new.lastActivityDate = old.lastActivityDate
           /\ new.isActive = old.isActive]_vars

C14_Witness ==
  \E u \in Users :
    /\ res.op = "createEmotion" /\ res.status = 201 /\ res.streak # <<>>
    /\ Cardinality(entriesOn(u, dayOf(now))) = 2
    /\ hasEntryOn(u, dayOf(now) - 1)
    /\ hasStreak(streaks, u)
    /\ theStreak(streaks, u).totalMoodTracked = 3
    /\ theStreak(streaks, u).currentStreak = 2
    /\ theStreak(streaks, u).lastActivityDate = todayOf(now)

(* C15: resetUserStreak on an existing record sets currentStreak to 0,      *)
(* isActive to false and streakStartDate to null and leaves longestStreak,  *)
(* totalMoodTracked and lastActivityDate unchanged; for a user without a    *)
(* record it fails and creates no record.                                   *)
C15_ResetEffects ==
  [][\A u \in Users :
       ResetUserStreak(u, FALSE) =>
         IF hasStreak(streaks, u)
         THEN LET old == theStreak(streaks, u)
                  new == theStreak(streaks', u)
              IN  /\ res'.status = 200
                  /\ hasStreak(streaks', u)
                  /\ new.currentStreak = 0
                  /\ new.isActive = FALSE
                  /\ new.streakStartDate = NULL
                  /\ new.longestStreak = old.longestStreak
                  /\ new.totalMoodTracked = old.totalMoodTracked
                  /\ new.lastActivityDate = old.lastActivityDate
         ELSE /\ res'.status >= 400
              /\ streaks' = streaks]_vars

C15_Witness ==
  \E u \in Users :
    /\ res.op = "resetUserStreak" /\ res.status = 200
    /\ hasStreak(streaks, u)
    /\ theStreak(streaks, u).currentStreak = 0
    /\ theStreak(streaks, u).isActive = FALSE
    /\ theStreak(streaks, u).streakStartDate = NULL
    /\ theStreak(streaks, u).longestStreak = 2
    /\ theStreak(streaks, u).totalMoodTracked = 2
    /\ theStreak(streaks, u).lastActivityDate = todayOf(now)

(* C16: when the entry has been stored and the streak update that follows   *)
(* throws, createEmotion still answers 201 with streak: null, and the       *)
(* stored entry is kept.                                                    *)
C16_StreakFailureIsSwallowed ==
  [][\A u \in Users, body \in EmotionBodies :
       CreateEmotion(u, body, "update") =>
         /\ res'.status = 201
         /\ res'.streak = <<>>
         /\ Len(entries') = Len(entries) + 1
         /\ SubSeq(entries', 1, Len(entries)) = entries
         /\ entries'[Len(entries')].userId = u
         /\ streaks' = streaks]_vars

C16_Witness ==
  /\ res.op = "createEmotion" /\ res.status = 201 /\ res.streak = <<>>
  /\ Len(entries) = 1
  /\ entries[1].userId = res.userId
  /\ streaks = {}

(* The emotion names one of the eight emotions, in English or Ukrainian,    *)
(* whatever its letter case and the blanks around it.                       *)
inVocabulary(emotion) ==
  /\ typeof(emotion) = "string"
  /\ \E w \in EmotionType \cup EmotionTypeUkrainian :
       trim(toLowerCase(emotion.s)) = w

(* C17: createEmotion called with a missing userId, a missing emotion or    *)
(* an emotion in neither vocabulary fails with InvalidEmotionDataError      *)
(* (status 400), stores no entry and leaves the streak records unchanged.   *)
C17_InvalidInputRejected ==
  [][\A userId \in Users \cup {NoUser}, body \in EmotionBodies,
        fault \in CreateFaults :
       (/\ CreateEmotion(userId, body, fault)
        /\ \/ userId = NoUser
           \/ body.emotion = JSUndefined
           \/ ~inVocabulary(body.emotion))
       =>
       /\ res'.status = 400
       /\ entries' = entries
       /\ streaks' = streaks]_vars

(* C19: getStreakStats answers 200 with the streak statistics for every     *)
(* user, both when the user's record already exists and when the call       *)
(* creates a zeroed record.                                                 *)
C19_StatsAlwaysAnswered ==
  [][\A u \in Users :
       GetStreakStats(u, FALSE) =>
         /\ res'.status = 200
         /\ res'.streak # <<>>]_vars

(***************************************************************************)
(* Properties of overlapping requests                                      *)
(***************************************************************************)
totalMoodTrackedOf(userId) ==
  IF hasStreak(streaks, userId)
  THEN theStreak(streaks, userId).totalMoodTracked ELSE 0

(* C11: under every interleaving of createEmotion requests for the same     *)
(* user, once all of them have completed, totalMoodTracked has grown by     *)
(* exactly the number of requests answered 201 with a streak: no update is  *)
(* lost.                                                                    *)
C11_NoLostUpdate ==
  race.calls = EmptyBag =>
    \A u \in Users : totalMoodTrackedOf(u) = race.acked[u]

(* C18: under every interleaving of createEmotion, getUserStreak,           *)
(* getStreakStats and resetUserStreak requests there is at most one streak  *)
(* record per user.                                                         *)
C18_OneStreakPerUser ==
  \A u \in Users : Cardinality(findByUserId(streaks, u)) <= 1

(* two requests found no record; the createEmotion created it, and the      *)
(* other request, still holding what it read, meets the unique index        *)
C18_Witness ==
  \E this \in callsAt("create") \cup callsAt("write") :
    /\ this.found = {}
    /\ Cardinality(findByUserId(streaks, this.userId)) = 1
    /\ totalMoodTrackedOf(this.userId) = 1

====
